---- MODULE Spec2Model ----
(***************************************************************************)
(* Model of the Starlink satellite monitor backend:                        *)
(*   - the multi-source resolver (EnhancedSatelliteCollector),             *)
(*   - the element-set collectors it wraps (SatelliteCollector for         *)
(*     CelesTrak, SpaceTrackCollector for Space-Track),                    *)
(*   - the web layer's constellation and visibility queries,               *)
(*   - the background refresh loop (MonitoringService).                    *)
(* Time is counted in minutes.  A position is represented by the catalog   *)
(* number of the satellite it belongs to.                                  *)
(***************************************************************************)
EXTENDS Integers, Sequences, FiniteSets, TLC

\* ------------------------------------------------------------------ bounds
MaxNow == 6        \* the clock runs from 0 to MaxNow minutes
MaxRecs == 1       \* longest element set / API response an input carries
MaxNorad == 1      \* number of distinct catalog numbers in the inputs
MaxThreads == 2    \* loop threads that can exist at the same time
MaxCounter == 2    \* _satellite_counter wraps around at this value
MaxLines == 6      \* most lines an element text has
MaxSats == 3       \* most satellites a loaded element set holds in a query

\* ------------------------------------------------------- program constants
cache_duration == 5        \* timedelta(minutes=5)
tle_cache_duration == 60   \* 3600 seconds
auth_duration == 60        \* 3600 seconds
PositionLimit == 20        \* starlink_satellites[:20]
LineWidth == 69            \* len(line1) == 69 and len(line2) == 69
SampleCount == 10          \* range(10) in _get_sample_satellite_data
FallbackCount == 12        \* range(12) in _get_fallback_data

\* ------------------------------------------------------------ Python values
None == [py |-> "None"]
EmptyDict == [py |-> "dict"]
Raise == [py |-> "raise"]

NoradIds == 50001..(50000 + MaxNorad)

\* One element of an input: a TLE triplet, a Space-Track JSON object or an
\* API list item.  valid: it passes the parser's validation; ok: a position
\* can be computed from it.
Entries == {e \in [norad_id : NoradIds, valid : BOOLEAN, ok : BOOLEAN] :
              ~e.valid => ~e.ok}

RECURSIVE SeqsUpTo(_, _)
SeqsUpTo(S, n) ==
  IF n = 0 THEN {<<>>}
  ELSE LET shorter == SeqsUpTo(S, n - 1)
       IN shorter \cup {Append(s, x) : s \in {q \in shorter : Len(q) = n - 1}, x \in S}

EntryLists == SeqsUpTo(Entries, MaxRecs)

\* A response of a remote source: an HTTP/transport failure or a body.
Responses == {[status |-> "error", entries |-> <<>>]}
               \cup {[status |-> "ok", entries |-> es] : es \in EntryLists}

\* A login attempt at Space-Track: HTTP 200 or not, session cookie set or not.
Logins == [ok : BOOLEAN, cookie : BOOLEAN]

Min(a, b) == IF a < b THEN a ELSE b

IsValid(e) == e.valid
IsOk(e) == e.ok

PositionsOf_aborting(recs) ==
  LET failed == {i \in 1..Len(recs) : ~recs[i].ok}
      upto == IF failed = {} THEN Len(recs)
              ELSE (CHOOSE i \in failed : \A j \in failed : i <= j) - 1
      good == SubSeq(recs, 1, upto)
  IN [i \in 1..Len(good) |-> good[i].norad_id]

\* the positions computed from a list of element records, in input order
PositionsOf(recs) ==
  LET good == SelectSeq(recs, IsOk)
  IN [i \in 1..Len(good) |-> good[i].norad_id]

Snapshot_miscounted(src, count, positions) ==
  [data_source |-> src, satellite_count |-> count,
   positions_calculated |-> count, positions |-> positions]

\* the snapshot dict: positions_calculated is len(positions)
Snapshot(src, count, positions) ==
  [data_source |-> src, satellite_count |-> count,
   positions_calculated |-> Len(positions), positions |-> positions]

\* ------------------------------------------- SatelliteCollector (CelesTrak)
InitStore ==
  [sats |-> <<>>, recs |-> <<>>, last_tle_fetch |-> <<>>,
   auth_token |-> FALSE, auth_time |-> <<>>]

\* One line of an element text after strip().  w: its width; first: its
\* first character; cat: <<n>> when characters 3-7 read as the integer n,
\* <<>> when int() rejects them; elems: float() reads the orbital element
\* fields.
TextLines ==
  {[w |-> LineWidth, first |-> "1", cat |-> <<50001>>, elems |-> FALSE],
   [w |-> LineWidth, first |-> "1", cat |-> <<>>, elems |-> FALSE],
   [w |-> LineWidth + 1, first |-> "1", cat |-> <<50001>>, elems |-> FALSE],
   [w |-> LineWidth, first |-> "2", cat |-> <<50001>>, elems |-> TRUE],
   [w |-> LineWidth, first |-> "2", cat |-> <<50001>>, elems |-> FALSE],
   [w |-> LineWidth + 1, first |-> "2", cat |-> <<50001>>, elems |-> TRUE]}

\* content.strip().split('\n') has at least one line
Texts == UNION {[1..n -> TextLines] : n \in 1..MaxLines}

validate_first_line_only(line1, line2) ==
  line1.w = LineWidth /\ line1.first = "1" /\ line2.first = "2"

\* the basic validation of line 201
validate(line1, line2) ==
  /\ line1.w = LineWidth
  /\ line2.w = LineWidth
  /\ line1.first = "1"
  /\ line2.first = "2"

\* lines 194-211: the triplets at line offsets 0, 3, 6, ...; a triplet is
\* kept when it passes the validation and int(line1[2:7]) raises nothing
parse_tle(text) ==
  LET n == Len(text)
      starts == {i \in 0..(n - 1) : i % 3 = 0 /\ i + 2 < n}
  IN [k \in 1..Cardinality(starts) |->
        LET i == 3 * (k - 1)
            line1 == text[i + 2]
            line2 == text[i + 3]
            kept == validate(line1, line2) /\ line1.cat # <<>>
        IN [norad_id |-> IF line1.cat = <<>> THEN 0 ELSE line1.cat[1],
            valid |-> kept,
            ok |-> kept /\ line2.elems]]

get_sample_satellite_data ==
  [data_source |-> "sample_data", satellite_count |-> SampleCount,
   positions_calculated |-> SampleCount,
   positions |-> [i \in 1..SampleCount |-> 50000 + (i - 1)]]

should_update_tle_at_ttl(st, t) ==
  IF st.last_tle_fetch = <<>> THEN TRUE
  ELSE t - st.last_tle_fetch[1] >= tle_cache_duration

should_update_tle(st, t) ==
  IF st.last_tle_fetch = <<>> THEN TRUE
  ELSE t - st.last_tle_fetch[1] > tle_cache_duration

ct_fetch_starlink_tle_data_merging(st, t, resp) ==
  IF resp.status # "ok" THEN [ok |-> FALSE, st |-> st]
  ELSE LET satellites == SelectSeq(resp.entries, IsValid)
       IN IF Len(satellites) = 0 THEN [ok |-> FALSE, st |-> st]
          ELSE [ok |-> TRUE,
                st |-> [st EXCEPT !.sats = st.sats \o satellites,
                                  !.last_tle_fetch = <<t>>]]

ct_fetch_starlink_tle_data(st, t, resp) ==
  IF resp.status # "ok" THEN [ok |-> FALSE, st |-> st]
  ELSE LET satellites == SelectSeq(resp.entries, IsValid)
       IN IF Len(satellites) = 0 THEN [ok |-> FALSE, st |-> st]
          ELSE [ok |-> TRUE,
                st |-> [st EXCEPT !.sats = satellites, !.last_tle_fetch = <<t>>]]

ct_get_starlink_constellation_retaining(st, t, resp) ==
  LET stale == should_update_tle(st, t)
      f == IF stale THEN ct_fetch_starlink_tle_data(st, t, resp)
           ELSE [ok |-> TRUE, st |-> st]
      sample_satellites == SubSeq(f.st.sats, 1, Min(PositionLimit, Len(f.st.sats)))
  IN IF f.st.sats = <<>> THEN [ret |-> get_sample_satellite_data, st |-> f.st]
     ELSE [ret |-> Snapshot("celestrak_tle", Len(f.st.sats),
                            PositionsOf(sample_satellites)),
           st |-> f.st]

ct_get_starlink_constellation(st, t, resp) ==
  LET stale == should_update_tle(st, t)
      f == IF stale THEN ct_fetch_starlink_tle_data(st, t, resp)
           ELSE [ok |-> TRUE, st |-> st]
      sample_satellites == SubSeq(f.st.sats, 1, Min(PositionLimit, Len(f.st.sats)))
  IN IF stale /\ ~f.ok THEN [ret |-> get_sample_satellite_data, st |-> f.st]
     ELSE IF f.st.sats = <<>> THEN [ret |-> get_sample_satellite_data, st |-> f.st]
     ELSE [ret |-> Snapshot("celestrak_tle", Len(f.st.sats),
                            PositionsOf(sample_satellites)),
           st |-> f.st]

\* ----------------------------------------------------- SpaceTrackCollector
authenticate(creds, st, t, login) ==
  IF ~creds THEN [ok |-> FALSE, st |-> st]
  ELSE IF st.auth_token /\ st.auth_time # <<>>
          /\ t - st.auth_time[1] < auth_duration
       THEN [ok |-> TRUE, st |-> st]
  ELSE IF login.ok
       THEN [ok |-> TRUE,
             st |-> [st EXCEPT !.auth_token = login.cookie, !.auth_time = <<t>>]]
  ELSE [ok |-> FALSE, st |-> st]

\* whether authenticate gets to the login POST of line 49: the credentials
\* are set (lines 27-30) and the token test of lines 34-36 does not return
login_requested(creds, st, t) ==
  /\ creds
  /\ ~(st.auth_token /\ st.auth_time # <<>>
         /\ t - st.auth_time[1] < auth_duration)

\* satellite_records: a dict keyed by catalog number, kept as the sequence of
\* its values in insertion order
RECURSIVE DictOf(_)
DictOf(es) ==
  IF es = <<>> THEN <<>>
  ELSE LET d == DictOf(SubSeq(es, 1, Len(es) - 1))
           e == es[Len(es)]
       IN IF \E i \in 1..Len(d) : d[i].norad_id = e.norad_id
          THEN [i \in 1..Len(d) |-> IF d[i].norad_id = e.norad_id THEN e ELSE d[i]]
          ELSE Append(d, e)

st_fetch_starlink_tle_data_clearing(creds, st, t, login, resp) ==
  LET a == authenticate(creds, st, t, login)
      cleared == [a.st EXCEPT !.sats = <<>>, !.recs = <<>>]
  IN IF ~a.ok THEN [ok |-> FALSE, st |-> a.st]
     ELSE IF resp.status # "ok" THEN [ok |-> FALSE, st |-> cleared]
     ELSE IF resp.entries = <<>> THEN [ok |-> FALSE, st |-> cleared]
     ELSE LET satellites == SelectSeq(resp.entries, IsValid)
          IN [ok |-> TRUE,
              st |-> [a.st EXCEPT !.sats = satellites,
                                  !.recs = DictOf(satellites),
                                  !.last_tle_fetch = <<t>>]]

st_fetch_starlink_tle_data(creds, st, t, login, resp) ==
  LET a == authenticate(creds, st, t, login)
  IN IF ~a.ok THEN [ok |-> FALSE, st |-> a.st]
     ELSE IF resp.status # "ok" THEN [ok |-> FALSE, st |-> a.st]
     ELSE IF resp.entries = <<>> THEN [ok |-> FALSE, st |-> a.st]
     ELSE LET satellites == SelectSeq(resp.entries, IsValid)
          IN [ok |-> TRUE,
              st |-> [a.st EXCEPT !.sats = satellites,
                                  !.recs = DictOf(satellites),
                                  !.last_tle_fetch = <<t>>]]

calculate_realtime_positions(st) ==
  IF st.recs = <<>> THEN <<>>
  ELSE LET known(r) == \E i \in 1..Len(st.sats) : st.sats[i].norad_id = r.norad_id
       IN PositionsOf(SelectSeq(st.recs, known))

st_get_starlink_constellation(creds, st, t, login, resp) ==
  LET stale == should_update_tle(st, t)
      f == IF stale THEN st_fetch_starlink_tle_data(creds, st, t, login, resp)
           ELSE [ok |-> TRUE, st |-> st]
  IN IF stale /\ ~f.ok THEN [ret |-> get_sample_satellite_data, st |-> f.st]
     ELSE [ret |-> Snapshot("spacetrack_sgp4", Len(f.st.sats),
                            calculate_realtime_positions(f.st)),
           st |-> f.st]

\* ---------------------------------------------- EnhancedSatelliteCollector
data_sources_swapped ==
  <<"aviation_edge", "satellitemap_enhanced", "space_track", "celestrak_fallback">>

data_sources ==
  <<"satellitemap_enhanced", "aviation_edge", "space_track", "celestrak_fallback">>

\* each provider: the set of values a call can return at time t
get_satellitemap_data(key) ==
  IF ~key THEN {None}
  ELSE {None} \cup
       {Snapshot("satellitemap_enhanced", Len(PositionsOf(r.entries)), PositionsOf(r.entries)) :
          r \in {x \in Responses : x.status = "ok" /\ x.entries # <<>>}}

process_aviation_edge_data(entries) ==
  Snapshot("aviation_edge_premium", Len(PositionsOf(entries)), PositionsOf(entries))

get_aviation_edge_data(key) ==
  IF ~key THEN {None}
  ELSE {None} \cup {process_aviation_edge_data(r.entries) :
                      r \in {x \in Responses : x.status = "ok"}}

get_spacetrack_data(creds, t) ==
  {Raise} \cup
  {LET a == authenticate(creds, InitStore, t, l1)
   IN IF a.ok THEN st_get_starlink_constellation(creds, a.st, t, l2, r).ret
      ELSE None :
     l1 \in Logins, l2 \in Logins, r \in Responses}

get_celestrak_data(t) ==
  {Raise} \cup {ct_get_starlink_constellation(InitStore, t, r).ret : r \in Responses}

is_cache_valid_inclusive(lu, cd, t) ==
  IF lu = <<>> \/ cd = EmptyDict THEN FALSE
  ELSE t - lu[1] <= cache_duration

is_cache_valid(lu, cd, t) ==
  IF lu = <<>> \/ cd = EmptyDict THEN FALSE
  ELSE t - lu[1] < cache_duration

get_fallback_data_sample == get_sample_satellite_data

get_fallback_data ==
  [data_source |-> "enhanced_fallback", satellite_count |-> FallbackCount,
   positions_calculated |-> FallbackCount,
   positions |-> [i \in 1..FallbackCount |-> 44700 + (i - 1)]]

provider_succeeded(d) ==
  d # Raise /\ d # None /\ d.positions # <<>>

\* ------------------------------------------- the two synthetic generators
\* _get_sample_satellite_data called at time t, with the fields of each
\* position: name is the number in STARLINK-<name>
sample_satellite_data_at(t) ==
  [timestamp |-> t, data_source |-> "sample_data",
   satellite_count |-> SampleCount, positions_calculated |-> SampleCount,
   positions |-> [k \in 1..SampleCount |->
                    LET i == k - 1
                    IN [name |-> 1000 + i, norad_id |-> 50000 + i,
                        lat |-> (i * 15) - 60, lng |-> (i * 36) - 180,
                        alt |-> 550, timestamp |-> t]]]

fallback_data_at_drifting(t) ==
  [timestamp |-> t, data_source |-> "enhanced_fallback",
   satellite_count |-> FallbackCount, positions_calculated |-> FallbackCount,
   positions |-> [k \in 1..FallbackCount |->
                    LET i == k - 1
                    IN [name |-> 1000 + i, norad_id |-> 44700 + i,
                        lat |-> 45 + ((i * 15) % 90) - 45,
                        lng |-> ((i * 30 + t) % 360) - 120,
                        alt |-> 550 + (i % 3) * 10]]]

\* _get_fallback_data called at time t
fallback_data_at(t) ==
  [timestamp |-> t, data_source |-> "enhanced_fallback",
   satellite_count |-> FallbackCount, positions_calculated |-> FallbackCount,
   positions |-> [k \in 1..FallbackCount |->
                    LET i == k - 1
                    IN [name |-> 1000 + i, norad_id |-> 44700 + i,
                        lat |-> 45 + ((i * 15) % 90) - 45,
                        lng |-> ((i * 30) % 360) - 120,
                        alt |-> 550 + (i % 3) * 10]]]

\* the generator a collector of kind k falls back to
synthetic_data_at(k, t) ==
  IF k = "enhanced" THEN fallback_data_at(t) ELSE sample_satellite_data_at(t)


\* ------------------------------------------------- visibility (collectors)
ElevationValues == {5, 10, 45}

\* which collector classes define which query method
has_method(k, m) ==
  CASE m = "get_starlink_constellation" -> TRUE
    [] m = "get_satellites_over_location" -> k \in {"spacetrack", "celestrak"}
    [] m = "get_visible_satellites" -> k = "enhanced"
    [] OTHER -> FALSE

RECURSIVE SortByElevation_unstable(_)
SortByElevation_unstable(s) ==
  IF s = <<>> THEN <<>>
  ELSE LET best == CHOOSE i \in 1..Len(s) :
                     /\ \A j \in 1..Len(s) : s[j].elevation <= s[i].elevation
                     /\ \A j \in (i + 1)..Len(s) : s[j].elevation < s[i].elevation
           rest == [k \in 1..(Len(s) - 1) |-> IF k < best THEN s[k] ELSE s[k + 1]]
       IN <<s[best]>> \o SortByElevation_unstable(rest)

\* sort(key=elevation, reverse=True): stable, highest first
RECURSIVE SortByElevation(_)
SortByElevation(s) ==
  IF s = <<>> THEN <<>>
  ELSE LET best == CHOOSE i \in 1..Len(s) :
                     /\ \A j \in 1..Len(s) : s[j].elevation <= s[i].elevation
                     /\ \A j \in 1..(i - 1) : s[j].elevation < s[i].elevation
           rest == [k \in 1..(Len(s) - 1) |-> IF k < best THEN s[k] ELSE s[k + 1]]
       IN <<s[best]>> \o SortByElevation(rest)

get_satellites_over_location_strict(st, el, elevation_degrees) ==
  LET cand == [i \in 1..Len(st.sats) |->
                 [norad_id |-> st.sats[i].norad_id, ok |-> st.sats[i].ok,
                  elevation |-> el[i], index |-> i]]
      seen(x) == x.ok /\ x.elevation > elevation_degrees
      visible == SelectSeq(cand, seen)
  IN SortByElevation([i \in 1..Len(visible) |->
                        [norad_id |-> visible[i].norad_id,
                         elevation_degrees |-> visible[i].elevation,
                         elevation |-> visible[i].elevation,
                         index |-> visible[i].index]])

\* el[i]: the elevation computed for the i-th stored satellite; index: the
\* place of the satellite in starlink_satellites
get_satellites_over_location(st, el, elevation_degrees) ==
  LET cand == [i \in 1..Len(st.sats) |->
                 [norad_id |-> st.sats[i].norad_id, ok |-> st.sats[i].ok,
                  elevation |-> el[i], index |-> i]]
      seen(x) == x.ok /\ x.elevation >= elevation_degrees
      visible == SelectSeq(cand, seen)
  IN SortByElevation([i \in 1..Len(visible) |->
                        [norad_id |-> visible[i].norad_id,
                         elevation_degrees |-> visible[i].elevation,
                         elevation |-> visible[i].elevation,
                         index |-> visible[i].index]])

\* EnhancedSatelliteCollector.get_visible_satellites on the positions of the
\* constellation it obtained; dist[i]: the great-circle distance (km) from
\* the observer to the i-th position
HorizonLimit == 2000
Distances == {0, 1000, 1500, 2000}
EnhancedMinimums == {10, 80}

Max(a, b) == IF a > b THEN a ELSE b

get_visible_satellites(positions, dist, elevation_min) ==
  LET cand == [i \in 1..Len(positions) |->
                 [norad_id |-> positions[i], distance |-> dist[i],
                  elevation |-> Max(0, 90 - (dist[i] \div 100)), index |-> i]]
      seen(x) == x.distance < HorizonLimit /\ x.elevation >= elevation_min
  IN SortByElevation(SelectSeq(cand, seen))

\* ---------------------------------------------- look angles and positions
\* Points are taken on the equator at longitudes that are multiples of 90
\* degrees, where the trigonometry is exact; lengths are whole kilometres.
EarthRadius == 6371
GridLats == {0}
ObserverLons == {0, 90}
SatelliteLons == {-180, -90, 0, 90, 180}
Altitudes == {0, 550}
MaxRange == 2 * EarthRadius + 550

CosDeg(d) == CASE d % 360 = 0 -> 1 [] d % 360 = 180 -> -1 [] OTHER -> 0
SinDeg(d) == CASE d % 360 = 90 -> 1 [] d % 360 = 270 -> -1 [] OTHER -> 0

\* the sign of math.sin(radians(a) - radians(b)) for d = a - b: at a
\* difference of 180 the double-precision sine is 1.2e-16, not 0
SinSign(d) ==
  CASE d = 0 -> 0
    [] d \in {90, 180, -270} -> 1
    [] d \in {-90, -180, 270} -> -1

\* math.degrees(math.atan2(y, x)) for y, x in {-1, 0, 1}
atan2_degrees(y, x) ==
  CASE y = 0 /\ x >= 0 -> 0
    [] y = 0 /\ x < 0 -> 180
    [] y > 0 -> 90 - 45 * x
    [] y < 0 -> 45 * x - 90

ecef(lat, lon, alt) ==
  [x |-> (EarthRadius + alt) * CosDeg(lat) * CosDeg(lon),
   y |-> (EarthRadius + alt) * CosDeg(lat) * SinDeg(lon),
   z |-> (EarthRadius + alt) * SinDeg(lat)]

\* (dx*dx + dy*dy + dz*dz), the square of the distance
distance_squared(a, b) ==
  (b.x - a.x) * (b.x - a.x) + (b.y - a.y) * (b.y - a.y) + (b.z - a.z) * (b.z - a.z)

\* math.sqrt, to the kilometre below: the root lies in lo..hi
RECURSIVE root_between(_, _, _)
root_between(d2, lo, hi) ==
  IF lo = hi THEN lo
  ELSE LET mid == (lo + hi + 1) \div 2
       IN IF mid * mid <= d2 THEN root_between(d2, mid, hi)
          ELSE root_between(d2, lo, mid - 1)

sqrt_km(d2) == root_between(d2, 0, MaxRange)

\* math.degrees(math.asin(dot / distance)) to the nearest 45 degrees, from
\* dot and the square of a non-zero distance
asin_degrees(dot, d2) ==
  LET q == (dot * dot) \div Max(1, d2 \div 1000)
      size == IF q >= 854 THEN 90 ELSE IF q >= 146 THEN 45 ELSE 0
  IN IF dot < 0 THEN 0 - size ELSE size

\* lines 341-376: the body of _calculate_elevation_angle; the division by a
\* zero distance (line 373) raises ZeroDivisionError
elevation_angle_body(obs_lat, obs_lon, obs_alt, sat_lat, sat_lon, sat_alt) ==
  LET obs == ecef(obs_lat, obs_lon, obs_alt)
      sat == ecef(sat_lat, sat_lon, sat_alt)
      d2 == distance_squared(obs, sat)
      up == ecef(obs_lat, obs_lon, 1 - EarthRadius)
      dot == (sat.x - obs.x) * up.x + (sat.y - obs.y) * up.y + (sat.z - obs.z) * up.z
  IN IF d2 = 0 THEN Raise ELSE [v |-> asin_degrees(dot, d2)]

calculate_elevation_angle_unguarded(obs_lat, obs_lon, obs_alt, sat_lat, sat_lon, sat_alt) ==
  elevation_angle_body(obs_lat, obs_lon, obs_alt, sat_lat, sat_lon, sat_alt)

\* _calculate_elevation_angle: except Exception: return 0.0
calculate_elevation_angle(obs_lat, obs_lon, obs_alt, sat_lat, sat_lon, sat_alt) ==
  LET r == elevation_angle_body(obs_lat, obs_lon, obs_alt, sat_lat, sat_lon, sat_alt)
  IN IF r = Raise THEN [v |-> 0] ELSE r

\* _calculate_azimuth: nothing in its body divides; atan2(0, 0) is 0
calculate_azimuth(obs_lat, obs_lon, sat_lat, sat_lon) ==
  LET dlon == sat_lon - obs_lon
      y == SinSign(dlon) * CosDeg(sat_lat)
      x == CosDeg(obs_lat) * SinDeg(sat_lat)
             - SinDeg(obs_lat) * CosDeg(sat_lat) * CosDeg(dlon)
      azimuth == atan2_degrees(y, x)
  IN [v |-> (azimuth + 360) % 360]

\* _calculate_distance
calculate_distance(lat1, lon1, alt1, lat2, lon2, alt2) ==
  [v |-> sqrt_km(distance_squared(ecef(lat1, lon1, alt1), ecef(lat2, lon2, alt2)))]

\* the raw angles a propagation step hands to the normalisation: the
\* longitude is an atan2 angle (Space-Track) or an angle in [-180, 180] plus
\* an offset below 360, the latitude an asin or atan2 angle
RawLongitudes(k) ==
  IF k = "spacetrack" THEN {-180, -90, 0, 90, 180}
  ELSE {-180, -90, 0, 180, 181, 360, 539}
RawLatitudes == {-90, 0, 90}

RECURSIVE wrap_down(_)
wrap_down(lon) == IF lon > 180 THEN wrap_down(lon - 360) ELSE lon

RECURSIVE wrap_up(_)
wrap_up(lon) == IF lon < -180 THEN wrap_up(lon + 360) ELSE lon

\* while lon > 180: lon -= 360; while lon < -180: lon += 360
normalize_longitude(lon) == wrap_up(wrap_down(lon))

\* lat = max(-90, min(90, lat))
clamp_latitude(lat) == Max(-90, Min(90, lat))

\* the end of the three position computations
geodetic(k, lat, lon) ==
  CASE k = "celestrak" -> [lat |-> clamp_latitude(lat), lng |-> normalize_longitude(lon)]
    [] k = "spacetrack" -> [lat |-> lat, lng |-> normalize_longitude(lon)]
    [] k = "enhanced" -> [lat |-> lat, lng |-> (lon % 360) - 180]

\* ------------------------------------------------------- StarlinkCollector
\* self.potential_ips, in the order of lines 11-17
potential_ips ==
  <<"192.168.100.1", "192.168.1.1", "10.0.0.1", "dishy.starlink", "192.168.100.2">>

\* What the three endpoints of one address give: "none" (no endpoint answers
\* with status or diagnostic data), "status" / "diagnostic" (the first usable
\* answer), "unparsable" (status data a parser fails on), "fault" (a 200
\* answer on which the tests of lines 53 and 60 raise)
Answers == {"none", "status", "diagnostic", "unparsable", "fault"}

\* ipinfo.io says the public address is Starlink's, says it is not, or the
\* request fails; on a Starlink address the download test and the ping
\* either give a measurement or fail, leaving the default estimate
Networks ==
  [org : {"starlink"}, speed_test : BOOLEAN, ping : BOOLEAN]
  \cup [org : {"other", "exception"}, speed_test : {FALSE}, ping : {FALSE}]

\* StarlinkCollector() as app.py line 30 builds it: dish_ip and
\* last_successful_data are <<>> for None; the fields of the last call:
\* known (dish_ip when the call began), probed (the addresses tried, in
\* order), ret (the value returned), raised (an exception left the call)
InitDish ==
  [dish_ip |-> <<>>, last_successful_data |-> <<>>, known |-> <<>>,
   probed |-> <<>>, ret |-> None, raised |-> FALSE]

\* _get_error_response
get_error_response(error_message) ==
  [connected |-> FALSE, dish_reachable |-> FALSE, error |-> error_message,
   source |-> "error"]

\* _check_starlink_network_connection
check_starlink_network_connection(network) ==
  CASE network.org = "starlink" ->
         [connected |-> TRUE, dish_reachable |-> TRUE, error |-> "",
          source |-> "network",
          \* download_mbps / upload_mbps and ping_latency_ms: measured, or
          \* the defaults 100 / 15 and 35
          speeds_measured |-> network.speed_test,
          latency_measured |-> network.ping]
    [] network.org = "other" ->
         get_error_response("No Starlink dish found on local network")
    [] OTHER -> get_error_response("Unable to detect Starlink connection")

ips_to_try_all(dish_ip) == potential_ips

\* line 29
ips_to_try(dish_ip) ==
  IF dish_ip # <<>> THEN dish_ip ELSE potential_ips

\* get_status: answer[ip] is what the address ip gives during the call
get_status(d, answer, network) ==
  LET ips == ips_to_try(d.dish_ip)
      hits == {i \in 1..Len(ips) : answer[ips[i]] # "none"}
      first == IF hits = {} THEN 0 ELSE CHOOSE i \in hits : \A j \in hits : i <= j
      called == [d EXCEPT !.known = d.dish_ip, !.raised = FALSE,
                           !.probed = IF first = 0 THEN ips ELSE SubSeq(ips, 1, first)]
      found == [connected |-> TRUE, dish_reachable |-> TRUE, error |-> "",
                source |-> "dish"]
  IN IF first = 0
     THEN [called EXCEPT !.ret = check_starlink_network_connection(network)]
     ELSE IF answer[ips[first]] = "fault"
     THEN [called EXCEPT !.ret = get_error_response("Unexpected error")]
     ELSE IF answer[ips[first]] = "unparsable"
     THEN [called EXCEPT !.dish_ip = <<ips[first]>>,
                         !.ret = get_error_response("Unexpected error")]
     ELSE [called EXCEPT !.dish_ip = <<ips[first]>>,
                         !.last_successful_data = <<answer[ips[first]]>>,
                         !.ret = found]

\* ------------------------------------------------------------------- state
Callers == {"loop", "api"}
Kinds == {"enhanced", "spacetrack", "celestrak"}

VARIABLES
  kind,          \* which collector app.py configured as satellite_collector
  smKey,         \* satellitemap_key is set
  aeKey,         \* aviation_edge_key is set
  stCreds,       \* Space-Track username and password are set
  lines,         \* the element text a CelesTrak download delivers
  call,          \* the query or helper call under way, with its arguments
  ret,           \* the value that call returned, None while it runs
  dish,          \* StarlinkCollector: its fields and its last get_status call
  now,           \* the clock
  last_update,   \* resolver: <<>> (None) or <<time of the last cache write>>
  cached_data,   \* resolver: EmptyDict or the cached snapshot
  pc,            \* per caller: position inside get_starlink_constellation
  idx,           \* per caller: index of the provider tried next
  data,          \* per caller: the snapshot the successful provider returned
  result,        \* per caller: the value returned, None while in the call
  invoked,       \* per caller: the providers invoked so far, with outcomes
  chk,           \* per caller: the snapshot the cache check found valid
  store,         \* the configured element-set collector's fields
  reply,         \* the last answer the web layer produced
  ingest,        \* what the collector's last get_starlink_constellation call
                 \* did about its element set
  running,       \* MonitoringService.running
  monitoring_active,      \* app.py global
  lpc,           \* per loop thread: position inside _monitoring_loop
  satellite_counter,      \* MonitoringService._satellite_counter, <<>> if unset
  cached_satellite_data,  \* MonitoringService._cached_satellite_data
  latest_data,   \* app.py global
  payload,       \* per loop thread: combined_data of the current tick
  requested,     \* per loop thread: snapshots requested in the current tick
  published,     \* per loop thread: payloads emitted in the current tick
  op             \* "start_running" when the last step was a start() call on a
                 \* service whose running flag was set, "stop_stopped" when it
                 \* was a stop() call on a service whose flag was clear,
                 \* "emit_stopped" when it was a payload emitted while the
                 \* flag was clear, "other" otherwise

resolverVars == <<last_update, cached_data, pc, idx, data, result, invoked, chk>>
configVars == <<kind, smKey, aeKey, stCreds, lines, dish, call, ret>>
serviceVars == <<running, lpc, satellite_counter, cached_satellite_data>>
loopVars == <<running, monitoring_active, lpc, satellite_counter,
              cached_satellite_data, latest_data, payload, requested, published,
              op>>
webVars == <<kind, smKey, aeKey, stCreds, lines, dish, call, ret, now, last_update,
             cached_data, pc, idx, data, result, invoked, chk, store, reply, ingest>>
vars == <<kind, smKey, aeKey, stCreds, lines, dish, call, ret, now, last_update,
          cached_data, pc, idx, data, result, invoked, chk, store, reply, ingest,
          running, monitoring_active,
          lpc, satellite_counter, cached_satellite_data, latest_data, payload,
          requested, published, op>>

Threads == 1..MaxThreads

NoReply == [op |-> "none"]
NoCall == [fn |-> "none"]

\* the flags describe objects that exist: the session and API keys belong
\* to the enhanced collector, the credentials to a Space-Track collector
InitProcess ==
  /\ kind \in Kinds
  /\ smKey \in (IF kind = "enhanced" THEN BOOLEAN ELSE {FALSE})
  /\ aeKey \in (IF kind = "enhanced" THEN BOOLEAN ELSE {FALSE})
  /\ stCreds \in (IF kind = "celestrak" THEN {FALSE} ELSE BOOLEAN)
  /\ now = 0
  /\ last_update = <<>>
  /\ cached_data = EmptyDict
  /\ pc = [c \in Callers |-> "idle"]
  /\ idx = [c \in Callers |-> 1]
  /\ data = [c \in Callers |-> None]
  /\ result = [c \in Callers |-> None]
  /\ invoked = [c \in Callers |-> <<>>]
  /\ chk = [c \in Callers |-> None]
  /\ reply = NoReply
  /\ ingest = NoReply
  /\ running = FALSE
  /\ monitoring_active = FALSE
  /\ lpc = [th \in Threads |-> "none"]
  /\ satellite_counter = <<>>
  /\ cached_satellite_data = EmptyDict
  /\ latest_data = EmptyDict
  /\ payload = [th \in Threads |-> EmptyDict]
  /\ requested = [th \in Threads |-> 0]
  /\ published = [th \in Threads |-> 0]
  /\ op = "other"
  /\ dish = InitDish

\* the collector has loaded nothing yet
InitObjects == InitProcess /\ store = InitStore

\* no download and no query is under way
Init ==
  /\ InitObjects
  /\ lines = <<>>
  /\ call = NoCall
  /\ ret = None

\* datetime.now() reads a later value
Tick ==
  /\ kind = "enhanced"
  /\ now < MaxNow
  /\ now' = now + 1
  /\ UNCHANGED <<loopVars, configVars, resolverVars, store, reply, ingest>>

\* --------------------------------- resolver: get_starlink_constellation
OutcomeKind(d) ==
  IF d = Raise THEN "raise"
  ELSE IF d = None THEN "none"
  ELSE IF d.positions = <<>> THEN "empty"
  ELSE "ok"

SourceTag(d) ==
  IF d = Raise \/ d = None THEN "" ELSE d.data_source

ProviderCall(source, t) ==
  IF source = "satellitemap_enhanced" THEN get_satellitemap_data(smKey)
  ELSE IF source = "aviation_edge" THEN get_aviation_edge_data(aeKey)
  ELSE IF source = "space_track" THEN get_spacetrack_data(stCreds, t)
  ELSE get_celestrak_data(t)

issues_request_unconditional(source) == TRUE

\* whether a call of the provider gets past its credential guard to the
\* statement that sends a request: requests.get (lines 129, 179), the login
\* POST of authenticate (spacetrack.py line 49, behind the guard of lines
\* 27-30), the element-set download of a new SatelliteCollector
issues_request(source) ==
  CASE source = "satellitemap_enhanced" -> smKey
    [] source = "aviation_edge" -> aeKey
    [] source = "space_track" -> stCreds
    [] OTHER -> TRUE

\* entry and the cache check (lines 82-85)
CheckCache(c) ==
  /\ kind = "enhanced"
  /\ pc[c] = "idle"
  /\ LET valid == is_cache_valid(last_update, cached_data, now)
     IN /\ chk' = [chk EXCEPT ![c] = IF valid THEN cached_data ELSE EmptyDict]
        /\ pc' = [pc EXCEPT ![c] = IF valid THEN "hit" ELSE "fetch"]
  /\ UNCHANGED <<loopVars, configVars, now, last_update, cached_data, idx, data, result,
                 invoked, store, reply, ingest>>

\* return self.cached_data (line 85)
ReturnCached(c) ==
  /\ pc[c] = "hit"
  /\ result' = [result EXCEPT ![c] = cached_data]
  /\ pc' = [pc EXCEPT ![c] = "done"]
  /\ UNCHANGED <<loopVars, configVars, now, last_update, cached_data, idx, data, invoked,
                 chk, store, reply, ingest>>

\* one iteration of the loop over data_sources (lines 88-108)
TryProvider(c) ==
  /\ pc[c] = "fetch"
  /\ \E d \in ProviderCall(data_sources[idx[c]], now) :
       /\ invoked' = [invoked EXCEPT ![c] =
                        Append(@, [source |-> data_sources[idx[c]],
                                   outcome |-> OutcomeKind(d),
                                   data_source |-> SourceTag(d),
                                   network |-> issues_request(data_sources[idx[c]])])]
       /\ IF provider_succeeded(d)
          THEN /\ data' = [data EXCEPT ![c] = d]
               /\ pc' = [pc EXCEPT ![c] = "cache_data"]
               /\ idx' = idx
          ELSE /\ data' = data
               /\ IF idx[c] < Len(data_sources)
                  THEN /\ idx' = [idx EXCEPT ![c] = @ + 1]
                       /\ pc' = pc
                  ELSE /\ idx' = idx
                       /\ pc' = [pc EXCEPT ![c] = "fallback"]
  /\ UNCHANGED <<loopVars, configVars, now, last_update, cached_data, result, chk, store, reply, ingest>>

CacheWriteData_in_place(c) ==
  /\ pc[c] = "cache_data"
  /\ cached_data' = IF cached_data = EmptyDict THEN data[c]
                    ELSE [cached_data EXCEPT
                            !.positions = data[c].positions,
                            !.positions_calculated = data[c].positions_calculated]
  /\ pc' = [pc EXCEPT ![c] = "cache_time"]
  /\ UNCHANGED <<loopVars, configVars, now, last_update, idx, data, result, invoked, chk,
                 store, reply, ingest>>

\* _cache_data, first statement: self.cached_data = data (line 297)
CacheWriteData(c) ==
  /\ pc[c] = "cache_data"
  /\ cached_data' = data[c]
  /\ pc' = [pc EXCEPT ![c] = "cache_time"]
  /\ UNCHANGED <<loopVars, configVars, now, last_update, idx, data, result, invoked, chk,
                 store, reply, ingest>>

\* _cache_data, second statement: self.last_update = datetime.now() (line 298)
CacheWriteTime(c) ==
  /\ pc[c] = "cache_time"
  /\ last_update' = <<now>>
  /\ pc' = [pc EXCEPT ![c] = "return"]
  /\ UNCHANGED <<loopVars, configVars, now, cached_data, idx, data, result, invoked, chk,
                 store, reply, ingest>>

\* return data (line 104)
ReturnData(c) ==
  /\ pc[c] = "return"
  /\ result' = [result EXCEPT ![c] = data[c]]
  /\ pc' = [pc EXCEPT ![c] = "done"]
  /\ UNCHANGED <<loopVars, configVars, now, last_update, cached_data, idx, data, invoked,
                 chk, store, reply, ingest>>

ReturnFallback_cached(c) ==
  /\ pc[c] = "fallback"
  /\ result' = [result EXCEPT ![c] = IF cached_data = EmptyDict
                                     THEN get_fallback_data ELSE cached_data]
  /\ pc' = [pc EXCEPT ![c] = "done"]
  /\ UNCHANGED <<loopVars, configVars, now, last_update, cached_data, idx, data, invoked,
                 chk, store, reply, ingest>>

\* return self._get_fallback_data() (line 112)
ReturnFallback(c) ==
  /\ pc[c] = "fallback"
  /\ result' = [result EXCEPT ![c] = get_fallback_data]
  /\ pc' = [pc EXCEPT ![c] = "done"]
  /\ UNCHANGED <<loopVars, configVars, now, last_update, cached_data, idx, data, invoked,
                 chk, store, reply, ingest>>

\* the caller consumes the value; its frame is gone
Finish(c) ==
  /\ pc[c] = "done"
  /\ pc' = [pc EXCEPT ![c] = "idle"]
  /\ idx' = [idx EXCEPT ![c] = 1]
  /\ data' = [data EXCEPT ![c] = None]
  /\ result' = [result EXCEPT ![c] = None]
  /\ invoked' = [invoked EXCEPT ![c] = <<>>]
  /\ chk' = [chk EXCEPT ![c] = None]
  /\ UNCHANGED <<loopVars, configVars, now, last_update, cached_data, store, reply, ingest>>

OthersIdle(c) == \A d \in Callers \ {c} : pc[d] = "idle"

\* one caller at a time
Call(c) == OthersIdle(c) /\ CheckCache(c)


\* ------------------------------- web layer over an element-set collector
\* GET /api/satellites when satellite_collector is a SpaceTrackCollector or
\* a SatelliteCollector (the refresh loop makes the same call)
CollectorGetConstellation ==
  /\ kind # "enhanced"
  /\ \E login \in Logins, resp \in Responses :
       LET r == IF kind = "spacetrack"
                THEN st_get_starlink_constellation(stCreds, store, now, login, resp)
                ELSE ct_get_starlink_constellation(store, now, resp)
           stale == should_update_tle(store, now)
           f == IF kind = "spacetrack"
                THEN st_fetch_starlink_tle_data(stCreds, store, now, login, resp)
                ELSE ct_fetch_starlink_tle_data(store, now, resp)
       IN /\ store' = r.st
          /\ reply' = [op |-> "constellation", raised |-> FALSE, status |-> 200,
                       body |-> r.ret]
          /\ ingest' = [op |-> "call",
                        age |-> IF store.last_tle_fetch = <<>> THEN <<>>
                                ELSE <<now - store.last_tle_fetch[1]>>,
                        fetched |-> stale,
                        ok |-> stale /\ f.ok,
                        entries |-> IF stale /\ f.ok THEN resp.entries ELSE <<>>,
                        replaced |-> stale /\ f.ok /\ store.sats # <<>>]
  /\ UNCHANGED <<loopVars, configVars, now, resolverVars>>

\* GET /api/satellites/visible
GetVisibleSatellites ==
  /\ \A c \in Callers : pc[c] = "idle"
  /\ \/ \* float() rejects a query argument (line 242)
        reply' = [op |-> "visible", raised |-> FALSE, status |-> 400,
                  satellites |-> <<>>]
     \/ \* the collector has no such method: AttributeError, line 244
        /\ ~has_method(kind, "get_satellites_over_location")
        /\ reply' = [op |-> "visible", raised |-> TRUE, status |-> 500,
                     satellites |-> <<>>]
     \/ /\ has_method(kind, "get_satellites_over_location")
        /\ \E el \in [1..Len(store.sats) -> ElevationValues],
              min_elevation \in ElevationValues :
             reply' = [op |-> "visible", raised |-> FALSE, status |-> 200,
                       satellites |->
                         get_satellites_over_location(store, el, min_elevation)]
  /\ UNCHANGED <<loopVars, configVars, now, resolverVars, store, ingest>>

\* time.time() reads a later value: the element-set cache lifetime, or a
\* minute more, passes between two requests
Elapse ==
  /\ kind # "enhanced"
  /\ now <= tle_cache_duration
  /\ \E d \in {tle_cache_duration, tle_cache_duration + 1} : now' = now + d
  /\ UNCHANGED <<loopVars, configVars, resolverVars, store, reply, ingest>>

\* ------------------------------------------------------- specifications
Next ==
  \/ Tick
  \/ Elapse
  \/ \E c \in Callers : Call(c)
  \/ \E c \in Callers : ReturnCached(c)
  \/ \E c \in Callers : TryProvider(c)
  \/ \E c \in Callers : CacheWriteData(c)
  \/ \E c \in Callers : CacheWriteTime(c)
  \/ \E c \in Callers : ReturnData(c)
  \/ \E c \in Callers : ReturnFallback(c)
  \/ \E c \in Callers : Finish(c)
  \/ CollectorGetConstellation
  \/ GetVisibleSatellites

Spec == Init /\ [][Next]_vars

\* the resolver shared by the refresh-loop thread and a request thread
InitConc == Init /\ kind = "enhanced" /\ ~smKey /\ ~aeKey

NextConc ==
  \/ Tick
  \/ \E c \in Callers : CheckCache(c)
  \/ \E c \in Callers : ReturnCached(c)
  \/ \E c \in Callers : TryProvider(c)
  \/ \E c \in Callers : CacheWriteData(c)
  \/ \E c \in Callers : CacheWriteTime(c)
  \/ \E c \in Callers : ReturnData(c)
  \/ \E c \in Callers : ReturnFallback(c)
  \/ \E c \in Callers : Finish(c)

SpecConc == InitConc /\ [][NextConc]_vars

\* ---------------------------------------- a CelesTrak download, line level
\* _fetch_starlink_tle_data on a new SatelliteCollector: the request fails,
\* or it delivers the text
FetchText ==
  /\ kind = "celestrak"
  /\ ingest = NoReply
  /\ \E status \in {"ok", "error"} :
       LET resp == [status |-> status,
                    entries |-> IF status = "ok" THEN parse_tle(lines) ELSE <<>>]
           f == ct_fetch_starlink_tle_data(store, now, resp)
       IN /\ store' = f.st
          /\ ingest' = [op |-> "fetch", status |-> status, ok |-> f.ok]
  /\ UNCHANGED <<loopVars, configVars, now, resolverVars, reply>>

InitIngest ==
  /\ InitObjects
  /\ kind = "celestrak"
  /\ lines \in Texts
  /\ call = NoCall
  /\ ret = None

SpecIngest == InitIngest /\ [][FetchText]_vars

\* ------------------------------------ queries on a loaded element set
BatchIds == {50001, 50002}

\* the records of a loaded set passed the parser
BatchEntries == [norad_id : BatchIds, valid : {TRUE}, ok : BOOLEAN]

\* the collector's fields after a successful fetch at time 0
LoadedStores(k) ==
  {[sats |-> sats,
    recs |-> IF k = "spacetrack" THEN DictOf(sats) ELSE <<>>,
    last_tle_fetch |-> <<0>>,
    auth_token |-> k = "spacetrack",
    auth_time |-> IF k = "spacetrack" THEN <<0>> ELSE <<>>] :
     sats \in UNION {[1..n -> BatchEntries] : n \in 1..MaxSats}}

\* the fields after a fetch that accepted one record more than the snapshot
\* propagates (a real download holds far more)
FullStore(k) ==
  LET sats == [i \in 1..(PositionLimit + 1) |->
                 [norad_id |-> 50000 + i, valid |-> TRUE, ok |-> TRUE]]
  IN [sats |-> sats,
      recs |-> IF k = "spacetrack" THEN DictOf(sats) ELSE <<>>,
      last_tle_fetch |-> <<0>>,
      auth_token |-> k = "spacetrack",
      auth_time |-> IF k = "spacetrack" THEN <<0>> ELSE <<>>]

\* get_starlink_constellation on the loaded set (the set is fresh: no fetch)
CalcConstellation ==
  /\ call.fn = "get_starlink_constellation"
  /\ ret = None
  /\ \E login \in Logins, resp \in Responses :
       LET r == IF kind = "spacetrack"
                THEN st_get_starlink_constellation(stCreds, store, now, login, resp)
                ELSE ct_get_starlink_constellation(store, now, resp)
       IN /\ store' = r.st
          /\ ret' = r.ret
  /\ UNCHANGED <<loopVars, kind, smKey, aeKey, stCreds, lines, dish, call, now,
                 resolverVars, reply, ingest>>

\* get_satellites_over_location on the loaded set
CalcVisible ==
  /\ call.fn = "get_satellites_over_location"
  /\ ret = None
  /\ ret' = [satellites |->
               get_satellites_over_location(store, call.el, call.elevation_degrees)]
  /\ UNCHANGED <<loopVars, kind, smKey, aeKey, stCreds, lines, dish, call, now,
                 resolverVars, store, reply, ingest>>

\* get_visible_satellites of the enhanced collector
CalcVisibleEnhanced ==
  /\ call.fn = "get_visible_satellites"
  /\ ret = None
  /\ ret' = [satellites |->
               get_visible_satellites(call.positions, call.dist, call.elevation_min)]
  /\ UNCHANGED <<loopVars, kind, smKey, aeKey, stCreds, lines, dish, call, now,
                 resolverVars, store, reply, ingest>>

\* get_satellites_over_location (lines 111-147) for one stored satellite
\* whose position is call.sat: the helpers' results and the list returned
CalcLookAngles ==
  /\ call.fn = "look_angles"
  /\ ret = None
  /\ LET o == call.obs
         p == call.sat
         elevation == calculate_elevation_angle(o.lat, o.lon, 0, p.lat, p.lon, p.alt)
         azimuth == calculate_azimuth(o.lat, o.lon, p.lat, p.lon)
         distance == calculate_distance(o.lat, o.lon, 0, p.lat, p.lon, p.alt)
         \* an exception inside the loop body skips the satellite (line 141)
         raised == Raise \in {elevation, azimuth, distance}
     IN ret' = [elevation |-> elevation, azimuth |-> azimuth, distance |-> distance,
                satellites |->
                  IF raised THEN <<>>
                  ELSE IF elevation.v >= call.elevation_degrees
                       THEN <<[elevation_degrees |-> elevation.v,
                               azimuth_degrees |-> azimuth.v,
                               distance_km |-> distance.v]>>
                       ELSE <<>>]
  /\ UNCHANGED <<loopVars, kind, smKey, aeKey, stCreds, lines, dish, call, now,
                 resolverVars, store, reply, ingest>>

\* the last step of a position computation
CalcPosition ==
  /\ call.fn = "position"
  /\ ret = None
  /\ ret' = geodetic(kind, call.lat, call.lon)
  /\ UNCHANGED <<loopVars, kind, smKey, aeKey, stCreds, lines, dish, call, now,
                 resolverVars, store, reply, ingest>>

\* The epoch field line1[18:32] of a first data line: <<yy, day>> when the
\* two year digits and the day of the year read as numbers, <<>> when int()
\* or float() rejects them.  A date is [year, day].
EpochFields == {<<>>, <<26, 1>>, <<26, 300>>, <<56, 1>>, <<57, 1>>}
AcquisitionDates == {[year |-> 2026, day |-> 1], [year |-> 2026, day |-> 200]}

\* _parse_tle_epoch: years below 57 are 20yy, the others 19yy; the date is
\* 1 January of the year plus day - 1 days; any exception gives now()
parse_tle_epoch(epoch_str, today) ==
  IF epoch_str = <<>> THEN today
  ELSE [year |-> IF epoch_str[1] < 57 THEN epoch_str[1] + 2000
                 ELSE epoch_str[1] + 1900,
        day |-> epoch_str[2]]

\* one iteration of the loop of lines 196-211 on the triplet (line1, line2)
\* whose epoch field is epoch_str, at the date today: the records appended
accept_triplet(line1, line2, epoch_str, today) ==
  IF validate(line1, line2) /\ line1.cat # <<>>
  THEN <<[norad_id |-> line1.cat[1],
          epoch |-> parse_tle_epoch(epoch_str, today)]>>
  ELSE <<>>

CalcAccept ==
  /\ call.fn = "accept_triplet"
  /\ ret = None
  /\ ret' = [satellites |->
               accept_triplet(call.line1, call.line2, call.epoch_str, call.today)]
  /\ UNCHANGED <<loopVars, kind, smKey, aeKey, stCreds, lines, dish, call, now,
                 resolverVars, store, reply, ingest>>

\* authenticate() called on one SpaceTrackCollector at call.t1 and again
\* call.later minutes after, with the login responses call.login1, call.login2
CalcAuthenticate ==
  /\ call.fn = "authenticate"
  /\ ret = None
  /\ LET t2 == call.t1 + call.later
         a1 == authenticate(stCreds, store, call.t1, call.login1)
         a2 == authenticate(stCreds, a1.st, t2, call.login2)
         auth(st) == [auth_token |-> st.auth_token, auth_time |-> st.auth_time]
     IN /\ ret' = [before |-> auth(store),
                   first |-> [ok |-> a1.ok, auth |-> auth(a1.st),
                              requested |-> login_requested(stCreds, store, call.t1)],
                   second |-> [ok |-> a2.ok, auth |-> auth(a2.st),
                               requested |-> login_requested(stCreds, a1.st, t2)]]
        /\ store' = a2.st
  /\ UNCHANGED <<loopVars, kind, smKey, aeKey, stCreds, lines, dish, call, now,
                 resolverVars, reply, ingest>>

\* the collector's synthetic generator called twice, at call.t1 and call.t2
CalcSynthetic ==
  /\ call.fn = "synthetic"
  /\ ret = None
  /\ ret' = [first |-> synthetic_data_at(kind, call.t1),
             second |-> synthetic_data_at(kind, call.t2)]
  /\ UNCHANGED <<loopVars, kind, smKey, aeKey, stCreds, lines, dish, call, now,
                 resolverVars, store, reply, ingest>>

Points(lons, alts) == [lat : GridLats, lon : lons, alt : alts]

\* the calls a collector of kind k with the fields st answers
Calls(k, st) ==
  [fn : {"position"}, lat : RawLatitudes, lon : RawLongitudes(k)]
  \cup [fn : {"synthetic"}, t1 : 0..MaxNow, t2 : 0..MaxNow]
  \cup (IF k # "spacetrack" THEN {}
        ELSE [fn : {"authenticate"}, login1 : Logins, login2 : Logins,
              t1 : {0, auth_duration},
              later : {0, auth_duration - 1, auth_duration}])
  \cup (IF k # "celestrak" THEN {}
        ELSE [fn : {"accept_triplet"},
              line1 : {l \in TextLines : l.first = "1"},
              line2 : {l \in TextLines : l.first = "2"},
              epoch_str : EpochFields, today : AcquisitionDates])
  \cup (IF k = "enhanced" THEN {}
        ELSE {[fn |-> "get_starlink_constellation"]})
  \cup (IF ~has_method(k, "get_satellites_over_location") THEN {}
        ELSE [fn : {"get_satellites_over_location"},
              el : IF Len(st.sats) <= MaxSats
                   THEN [1..Len(st.sats) -> ElevationValues]
                   ELSE {[i \in 1..Len(st.sats) |-> e] : e \in ElevationValues},
              elevation_degrees : ElevationValues]
             \cup [fn : {"look_angles"}, obs : Points(ObserverLons, {0}),
                   sat : Points(SatelliteLons, Altitudes),
                   elevation_degrees : {0, 10}])
  \cup (IF k # "enhanced" THEN {}
        ELSE UNION {[fn : {"get_visible_satellites"},
                     positions : [1..n -> BatchIds],
                     dist : [1..n -> Distances],
                     elevation_min : EnhancedMinimums] : n \in 1..MaxSats})

InitCalc ==
  /\ InitProcess
  /\ smKey = FALSE
  /\ aeKey = FALSE
  /\ stCreds = (kind = "spacetrack")
  /\ store \in (IF kind = "enhanced" THEN {InitStore}
                ELSE LoadedStores(kind) \cup {FullStore(kind)})
  /\ lines = <<>>
  /\ call \in Calls(kind, store)
  /\ ret = None

NextCalc ==
  \/ CalcConstellation
  \/ CalcVisible
  \/ CalcVisibleEnhanced
  \/ CalcLookAngles
  \/ CalcPosition
  \/ CalcSynthetic
  \/ CalcAccept
  \/ CalcAuthenticate

SpecCalc == InitCalc /\ [][NextCalc]_vars


\* ------------------------------------------------------ MonitoringService
\* what satellite_collector.get_starlink_constellation() hands to a tick
LoopSnapshots == {"celestrak_tle", "sample_data"}
start_always(r, l) ==
  IF \A x \in Threads : l[x] # "none" THEN [running |-> TRUE, lpc |-> l]
  ELSE LET th == CHOOSE x \in Threads :
                   /\ l[x] = "none"
                   /\ \A y \in Threads : l[y] = "none" => x <= y
       IN [running |-> TRUE, lpc |-> [l EXCEPT ![th] = "while"]]

\* start(): lines 59-67, on the fields (running, threads)
start(r, l) ==
  IF r THEN [running |-> r, lpc |-> l]
  ELSE LET th == CHOOSE x \in Threads :
                   /\ l[x] = "none"
                   /\ \A y \in Threads : l[y] = "none" => x <= y
       IN [running |-> TRUE, lpc |-> [l EXCEPT ![th] = "while"]]

\* a thread can be created (the model holds at most MaxThreads of them)
CanStart == running \/ \E th \in Threads : lpc[th] = "none"

\* POST /api/monitoring/start
StartMonitoring ==
  /\ CanStart
  /\ LET s == start(running, lpc)
     IN running' = s.running /\ lpc' = s.lpc
  /\ monitoring_active' = TRUE
  /\ op' = IF running THEN "start_running" ELSE "other"
  /\ UNCHANGED <<webVars, satellite_counter, cached_satellite_data, latest_data,
                 payload, requested, published>>

stop_toggles(r, l) == [running |-> ~r, lpc |-> l]

\* stop(): lines 69-72, on the fields (running, threads)
stop(r, l) == [running |-> FALSE, lpc |-> l]

\* POST /api/monitoring/stop
StopMonitoring ==
  /\ LET s == stop(running, lpc)
     IN running' = s.running /\ lpc' = s.lpc
  /\ monitoring_active' = FALSE
  /\ op' = IF running THEN "other" ELSE "stop_stopped"
  /\ UNCHANGED <<webVars, satellite_counter, cached_satellite_data,
                 latest_data, payload, requested, published>>

\* socket 'connect': auto-start when monitoring is not marked active
HandleConnect ==
  /\ CanStart
  /\ IF ~monitoring_active
     THEN /\ LET s == start(running, lpc)
             IN running' = s.running /\ lpc' = s.lpc
          /\ monitoring_active' = TRUE
          /\ op' = IF running THEN "start_running" ELSE "other"
     ELSE /\ UNCHANGED <<running, lpc, monitoring_active>>
          /\ op' = "other"
  /\ UNCHANGED <<webVars, satellite_counter, cached_satellite_data, latest_data,
                 payload, requested, published>>

LoopTest_ignores_stop(th) ==
  /\ lpc[th] = "while"
  /\ lpc' = [lpc EXCEPT ![th] = "status"]
  /\ payload' = [payload EXCEPT ![th] = EmptyDict]
  /\ requested' = [requested EXCEPT ![th] = 0]
  /\ published' = [published EXCEPT ![th] = 0]
  /\ op' = "other"
  /\ UNCHANGED <<webVars, running, monitoring_active, satellite_counter,
                 cached_satellite_data, latest_data>>

\* while self.running (line 78); a new tick begins or the thread ends
LoopTest(th) ==
  /\ lpc[th] = "while"
  /\ IF running
     THEN /\ lpc' = [lpc EXCEPT ![th] = "status"]
          /\ payload' = [payload EXCEPT ![th] = EmptyDict]
          /\ requested' = [requested EXCEPT ![th] = 0]
          /\ published' = [published EXCEPT ![th] = 0]
     ELSE /\ lpc' = [lpc EXCEPT ![th] = "none"]
          /\ UNCHANGED <<payload, requested, published>>
  /\ op' = "other"
  /\ UNCHANGED <<webVars, running, monitoring_active, satellite_counter,
                 cached_satellite_data, latest_data>>

\* starlink_data = starlink_collector.get_status() (line 81)
GetStatus(th) ==
  /\ lpc[th] = "status"
  /\ payload' = [payload EXCEPT ![th] =
                   [starlink |-> "status", satellites |-> EmptyDict]]
  /\ lpc' = [lpc EXCEPT ![th] = "collect"]
  /\ op' = "other"
  /\ UNCHANGED <<webVars, running, monitoring_active, satellite_counter,
                 cached_satellite_data, latest_data, requested, published>>

update_due_alternate(counter, cached) ==
  counter % 2 = 0 \/ cached = EmptyDict

\* line 93: is the satellite data refreshed in this tick
update_due(counter, cached) ==
  counter % 1 = 0 \/ cached = EmptyDict

\* lines 84-110: counter, snapshot request, combined_data, latest_data.
\* The statements outside any handler of their own (the prints of lines 94
\* and 96-97) can raise before or after the request.
Collect(th) ==
  /\ lpc[th] = "collect"
  /\ LET counter == IF satellite_counter = <<>> THEN 0
                    ELSE (satellite_counter[1] + 1) % MaxCounter
         due == update_due(counter, cached_satellite_data)
     IN /\ satellite_counter' = <<counter>>
        /\ \E snap \in LoopSnapshots, raised \in {"no", "before", "after"} :
             LET got == due /\ raised # "before"
                 sat == IF got THEN [data_source |-> snap] ELSE cached_satellite_data
             IN /\ cached_satellite_data' = sat
                /\ requested' = [requested EXCEPT ![th] = IF got THEN @ + 1 ELSE @]
                /\ IF raised = "no"
                   THEN /\ payload' = [payload EXCEPT ![th] =
                                         [starlink |-> @.starlink, satellites |-> sat]]
                        /\ latest_data' = payload'[th]
                        /\ lpc' = [lpc EXCEPT ![th] = "emit"]
                   ELSE /\ UNCHANGED <<payload, latest_data>>
                        /\ lpc' = [lpc EXCEPT ![th] = "backoff"]
  /\ op' = "other"
  /\ UNCHANGED <<webVars, running, monitoring_active, published>>

\* socketio.emit('data_update', combined_data) (line 113), or it raises
Emit(th) ==
  /\ lpc[th] = "emit"
  /\ \/ /\ published' = [published EXCEPT ![th] = @ + 1]
        /\ lpc' = [lpc EXCEPT ![th] = "log"]
        /\ op' = IF running THEN "other" ELSE "emit_stopped"
     \/ /\ published' = published
        /\ lpc' = [lpc EXCEPT ![th] = "backoff"]
        /\ op' = "other"
  /\ UNCHANGED <<webVars, running, monitoring_active, satellite_counter,
                 cached_satellite_data, latest_data, payload, requested>>

\* the status log (lines 116-122), then time.sleep(update_interval) begins
LogStatus(th) ==
  /\ lpc[th] = "log"
  /\ \/ lpc' = [lpc EXCEPT ![th] = "sleep"]
     \/ lpc' = [lpc EXCEPT ![th] = "backoff"]
  /\ op' = "other"
  /\ UNCHANGED <<webVars, running, monitoring_active, satellite_counter,
                 cached_satellite_data, latest_data, payload, requested, published>>

\* time.sleep(self.update_interval) returns (line 125)
Sleep(th) ==
  /\ lpc[th] = "sleep"
  /\ lpc' = [lpc EXCEPT ![th] = "while"]
  /\ payload' = [payload EXCEPT ![th] = EmptyDict]
  /\ requested' = [requested EXCEPT ![th] = 0]
  /\ published' = [published EXCEPT ![th] = 0]
  /\ op' = "other"
  /\ UNCHANGED <<webVars, running, monitoring_active, satellite_counter,
                 cached_satellite_data, latest_data>>

Backoff_exits(th) ==
  /\ lpc[th] = "backoff"
  /\ lpc' = [lpc EXCEPT ![th] = "none"]
  /\ payload' = [payload EXCEPT ![th] = EmptyDict]
  /\ requested' = [requested EXCEPT ![th] = 0]
  /\ published' = [published EXCEPT ![th] = 0]
  /\ op' = "other"
  /\ UNCHANGED <<webVars, running, monitoring_active, satellite_counter,
                 cached_satellite_data, latest_data>>

\* the except handler: time.sleep(5) returns (lines 127-129)
Backoff(th) ==
  /\ lpc[th] = "backoff"
  /\ lpc' = [lpc EXCEPT ![th] = "while"]
  /\ payload' = [payload EXCEPT ![th] = EmptyDict]
  /\ requested' = [requested EXCEPT ![th] = 0]
  /\ published' = [published EXCEPT ![th] = 0]
  /\ op' = "other"
  /\ UNCHANGED <<webVars, running, monitoring_active, satellite_counter,
                 cached_satellite_data, latest_data>>

ThreadStep(th) ==
  \/ LoopTest(th)
  \/ GetStatus(th)
  \/ Collect(th)
  \/ Emit(th)
  \/ LogStatus(th)
  \/ Sleep(th)
  \/ Backoff(th)

InitLoop == Init /\ kind = "enhanced" /\ smKey /\ aeKey /\ stCreds

NextLoop ==
  \/ StartMonitoring
  \/ StopMonitoring
  \/ HandleConnect
  \/ \E th \in Threads : LoopTest(th)
  \/ \E th \in Threads : GetStatus(th)
  \/ \E th \in Threads : Collect(th)
  \/ \E th \in Threads : Emit(th)
  \/ \E th \in Threads : LogStatus(th)
  \/ \E th \in Threads : Sleep(th)
  \/ \E th \in Threads : Backoff(th)

SpecLoop == InitLoop /\ [][NextLoop]_vars

\* the interpreter schedules every live thread and every sleep returns
SpecLoopFair == SpecLoop /\ \A th \in Threads : WF_vars(ThreadStep(th))


\* ------------------------------------------------------------ dish status
\* one call of starlink_collector.get_status()
DishStatus ==
  /\ \E answer \in [{potential_ips[i] : i \in 1..Len(potential_ips)} -> Answers],
        network \in Networks :
       dish' = get_status(dish, answer, network)
  /\ UNCHANGED <<kind, smKey, aeKey, stCreds, lines, call, ret, now, resolverVars,
                 store, reply, ingest, loopVars>>

InitDishSpec == Init /\ kind = "celestrak"

SpecDish == InitDishSpec /\ [][DishStatus]_vars


\* ==================================================================== claims
ClaimOrder ==
  <<"satellitemap_enhanced", "aviation_edge", "space_track", "celestrak_fallback">>

ClaimFailed(o) == o \in {"none", "empty", "raise"}

AllFailed(c) ==
  /\ Len(invoked[c]) = Len(ClaimOrder)
  /\ \A i \in 1..Len(invoked[c]) : ClaimFailed(invoked[c][i].outcome)

\* C1: on a cache miss the providers are invoked in the fixed priority
\* order; every provider before the last invoked one failed (nothing is
\* invoked after a success); the pass ends only at the first success or when
\* the list is exhausted; and when the (K+1)th provider succeeds the value
\* returned carries the data_source of that provider's snapshot.
C1_PriorityOrder ==
  \A c \in Callers :
    LET n == Len(invoked[c])
    IN /\ n <= Len(ClaimOrder)
       /\ \A i \in 1..n : invoked[c][i].source = ClaimOrder[i]
       /\ \A i \in 1..(n - 1) : ClaimFailed(invoked[c][i].outcome)
       /\ (pc[c] = "done" /\ n > 0) =>
            \/ /\ invoked[c][n].outcome = "ok"
               /\ result[c].data_source = invoked[c][n].data_source
               /\ result[c].positions # <<>>
            \/ AllFailed(c)

\* two providers failed (one by raising), the third in line succeeded
C1_Witness ==
  \E c \in Callers :
    /\ pc[c] = "done"
    /\ Len(invoked[c]) = 4
    /\ invoked[c][2].outcome = "empty"
    /\ invoked[c][3].outcome = "raise"
    /\ invoked[c][4].outcome = "ok"
    /\ result[c].data_source = "celestrak_tle"

\* C2: a call that finds a cached snapshot younger than 5 minutes returns
\* that snapshot and invokes no provider; the call is a cache hit exactly
\* when a snapshot is cached and now - cachedAt < 5, a miss (providers are
\* tried) from now - cachedAt = 5 on.
C2_CacheWindow ==
  /\ [](\A c \in Callers :
          (pc[c] \in {"hit", "done"} /\ chk[c] # EmptyDict) =>
             /\ invoked[c] = <<>>
             /\ pc[c] = "done" => result[c] = chk[c])
  /\ [][\A c \in Callers :
          (pc[c] = "idle" /\ pc'[c] # "idle") =>
             /\ pc'[c] \in {"hit", "fetch"}
             /\ pc'[c] = "hit" <=>
                  (/\ cached_data # EmptyDict
                   /\ last_update # <<>>
                   /\ now - last_update[1] < 5)
             /\ pc'[c] = "hit" => chk'[c] = cached_data]_vars

\* a second call, four minutes after the fetch that filled the cache, has
\* returned the cached snapshot
C2_Witness ==
  \E c \in Callers :
    /\ pc[c] = "done"
    /\ chk[c] # EmptyDict
    /\ invoked[c] = <<>>
    /\ last_update # <<>>
    /\ now - last_update[1] = 4

C4_OneFetchPerWindow ==
  [][\A c \in Callers :
       (pc[c] = "cache_time" /\ pc'[c] = "return") =>
          (last_update = <<>> \/ now - last_update[1] >= 5)]_vars

\* C5: every snapshot handed out by get_starlink_constellation, by the
\* resolver or by an element-set collector, has at least one position.
C5_NeverEmpty ==
  /\ \A c \in Callers : result[c] # None => result[c].positions # <<>>
  /\ reply.op = "constellation" => reply.body.positions # <<>>

\* C6: a reader never observes a half-replaced cache: no caller evaluates
\* the resolver's cache while another caller has stored the new snapshot in
\* cached_data and not yet the new time in last_update.
C6_AtomicReplace ==
  [][\A r \in Callers :
       (pc[r] = "idle" /\ pc'[r] # "idle") =>
          \A w \in Callers \ {r} : pc[w] # "cache_time"]_vars

\* C7: neither the visibility query nor the constellation query of the web
\* layer ends in an exception of the collector call.
C7_NoException ==
  reply.op \in {"visible", "constellation"} => ~reply.raised

C10_StartIdempotent ==
  [][op' = "start_running" =>
       (running' = running /\ lpc' = lpc
        /\ satellite_counter' = satellite_counter
        /\ cached_satellite_data' = cached_satellite_data)]_vars

\* start() has been called on a running service
C10_Witness ==
  /\ op = "start_running"
  /\ running
  /\ \E th \in Threads : lpc[th] # "none"

\* C11: stop() on a service whose running flag is clear changes none of the
\* service's fields, starts no thread and ends none; and applying stop()
\* twice gives the same fields as applying it once.
C11_StopIdempotent ==
  /\ [](LET s == stop(running, lpc)
        IN stop(s.running, s.lpc) = s)
  /\ [][op' = "stop_stopped" =>
          (running' = running /\ ~running' /\ lpc' = lpc
           /\ satellite_counter' = satellite_counter
           /\ cached_satellite_data' = cached_satellite_data)]_vars

\* stop() has been called on a stopped service whose thread is still
\* finishing its tick
C11_Witness ==
  /\ op = "stop_stopped"
  /\ ~running
  /\ \E th \in Threads : lpc[th] \in {"emit", "sleep"}

\* C12: a thread ends only at the loop test, never from inside a tick; a
\* tick in flight when running is false goes on through its stages and
\* publishes at most one payload; with running false the loop test begins no
\* further tick; and unless start() is called again every live thread
\* eventually ends.
C12_StopBetweenTicks ==
  /\ [][\A th \in Threads :
          /\ (lpc[th] # "none" /\ lpc'[th] = "none") => lpc[th] = "while"
          /\ (~running /\ lpc[th] \in {"status", "collect", "emit", "log"}
                /\ lpc'[th] # lpc[th])
               => lpc'[th] \in {"collect", "emit", "log", "sleep", "backoff"}
          /\ (~running /\ lpc[th] = "collect" /\ lpc'[th] = "emit")
               => requested'[th] = 1
          /\ (~running /\ lpc[th] = "while" /\ lpc'[th] # "while")
               => lpc'[th] = "none"]_vars
  /\ [][\A th \in Threads :
          (~running /\ published'[th] > published[th]) =>
            /\ lpc[th] = "emit" /\ lpc'[th] = "log"
            /\ requested[th] = 1
            /\ published[th] = 0 /\ published'[th] = 1
            /\ op' = "emit_stopped"]_vars
  /\ (~running) ~> (running \/ \A th \in Threads : lpc[th] = "none")

\* a tick that was in flight at the stop has published its payload
C12_Witness ==
  \E th \in Threads :
    ~running /\ op = "emit_stopped" /\ lpc[th] = "log" /\ published[th] = 1

\* the well-formed triplets of a text as C13 words them: a name line, then
\* a line of width 69 starting with '1', then a line of width 69 starting
\* with '2'
C13_WellFormed(text) ==
  {k \in 1..(Len(text) \div 3) :
     /\ text[3 * k - 1].w = 69 /\ text[3 * k - 1].first = "1"
     /\ text[3 * k].w = 69 /\ text[3 * k].first = "2"}

\* C13 as stated: the records an ingest stores are the well-formed triplets
\* of the text, one record each.
C13_AcceptsWellFormed ==
  (ingest.op = "fetch" /\ ingest.status = "ok") =>
     /\ ingest.ok <=> C13_WellFormed(lines) # {}
     /\ ingest.ok => Len(store.sats) = Cardinality(C13_WellFormed(lines))
     /\ ~ingest.ok => store.sats = <<>>

\* C13 amended: the records stored are the triplets, taken at line offsets
\* 0, 3, 6, ..., that are well formed and whose catalog number field
\* (characters 3-7 of the first data line) reads as an integer; they are
\* stored in input order and every other triplet is dropped.
C13_AcceptsParsable ==
  (ingest.op = "fetch" /\ ingest.status = "ok") =>
     LET good == {k \in C13_WellFormed(lines) : lines[3 * k - 1].cat # <<>>}
     IN /\ ingest.ok <=> good # {}
        /\ Len(store.sats) = Cardinality(good)
        /\ \A j \in 1..Len(store.sats) :
             \E k \in good :
               /\ Cardinality({m \in good : m < k}) = j - 1
               /\ store.sats[j].norad_id = lines[3 * k - 1].cat[1]

\* a text of two triplets of which the first was dropped, the second stored
C13_Witness ==
  /\ ingest.op = "fetch"
  /\ ingest.ok
  /\ Len(lines) = 6
  /\ Len(store.sats) = 1
  /\ lines[2].w # 69
  /\ lines[5].cat # <<>>

C14_Accepted(entries) ==
  LET parsed(e) == e.valid
  IN SelectSeq(entries, parsed)

\* C14: a step that resets the last-fetch time sets it to the current time
\* and leaves as the working set exactly the records parsed from the input
\* of that fetch, in input order (for Space-Track also one SGP4 record per
\* catalog number of that set), whatever the set held before; and the
\* working set changes in no other step.
C14_ReplaceWhole ==
  [][/\ store'.last_tle_fetch # store.last_tle_fetch =>
          /\ ingest'.ok
          /\ store'.last_tle_fetch = <<now>>
          /\ store'.sats = C14_Accepted(ingest'.entries)
          /\ \A i \in 1..Len(store'.sats) :
               \E j \in 1..Len(ingest'.entries) : store'.sats[i] = ingest'.entries[j]
          /\ kind = "spacetrack" =>
               /\ \A i \in 1..Len(store'.recs) :
                    \E j \in 1..Len(store'.sats) :
                      store'.recs[i].norad_id = store'.sats[j].norad_id
               /\ \A j \in 1..Len(store'.sats) :
                    \E i \in 1..Len(store'.recs) :
                      store'.recs[i].norad_id = store'.sats[j].norad_id
     /\ (store'.sats # store.sats \/ store'.recs # store.recs) =>
          store'.last_tle_fetch # store.last_tle_fetch]_vars

\* a later fetch has replaced a set that held records
C14_Witness ==
  /\ ingest.op = "call"
  /\ ingest.ok
  /\ ingest.replaced
  /\ store.last_tle_fetch = <<now>>
  /\ now > 0

\* C15: _should_update_tle is true exactly when no fetch has succeeded yet
\* or more than the 60-minute lifetime has passed since the last successful
\* fetch, and get_starlink_constellation fetches exactly in those calls: up
\* to and including minute 60 after a successful fetch it fetches nothing.
C15_ShouldRefresh ==
  /\ should_update_tle(store, now) <=>
       (store.last_tle_fetch = <<>> \/ now - store.last_tle_fetch[1] > 60)
  /\ ingest.op = "call" =>
       /\ ingest.fetched <=> (ingest.age = <<>> \/ ingest.age[1] > 60)
       /\ (ingest.age # <<>> /\ ingest.age[1] <= 60) => ~ingest.ok

\* a call one lifetime after the fetch was answered from the stored set
C15_Witness ==
  /\ ingest.op = "call"
  /\ ingest.age = <<60>>
  /\ ~ingest.fetched
  /\ reply.op = "constellation"
  /\ reply.body.data_source # "sample_data"

\* C16: a satellite whose propagation fails is left out and nothing else is:
\* a constellation request on a loaded set returns computed positions (never
\* the sample snapshot in their place), one for each satellite of the batch
\* whose propagation succeeded, in the order of the batch.
C16_Batch ==
  IF kind = "spacetrack" THEN store.recs
  ELSE SubSeq(store.sats, 1, Min(PositionLimit, Len(store.sats)))

C16_Good == {i \in 1..Len(C16_Batch) : C16_Batch[i].ok}

C16_Rank(i) == Cardinality({j \in C16_Good : j <= i})

C16_FailureOmitsOnlyThatSatellite ==
  (call.fn = "get_starlink_constellation" /\ ret # None) =>
    /\ ret.data_source # "sample_data"
    /\ Len(ret.positions) = Cardinality(C16_Good)
    /\ ret.positions_calculated = Cardinality(C16_Good)
    /\ \A i \in C16_Good : ret.positions[C16_Rank(i)] = C16_Batch[i].norad_id

\* a batch in which a failing satellite stands between two that succeed
C16_Witness ==
  /\ call.fn = "get_starlink_constellation"
  /\ ret # None
  /\ \E i, j, k \in 1..Len(C16_Batch) :
       /\ i < j /\ j < k
       /\ C16_Batch[i].ok /\ ~C16_Batch[j].ok /\ C16_Batch[k].ok
       /\ C16_Batch[i].norad_id # C16_Batch[k].norad_id
  /\ Len(ret.positions) = 2

\* C17: a visibility query returns no satellite below the requested minimum
\* elevation, and returns every satellite at or above it whose position was
\* computed (the enhanced collector computes an elevation only for satellites
\* nearer than 2000 km), each once and with its own elevation.
C17_MinimumElevation ==
  /\ (call.fn = "get_satellites_over_location" /\ ret # None) =>
       /\ \A k \in 1..Len(ret.satellites) :
            /\ ret.satellites[k].elevation_degrees >= call.elevation_degrees
            /\ ret.satellites[k].index \in 1..Len(store.sats)
            /\ store.sats[ret.satellites[k].index].ok
            /\ ret.satellites[k].elevation_degrees = call.el[ret.satellites[k].index]
       /\ \A i \in 1..Len(store.sats) :
            (store.sats[i].ok /\ call.el[i] >= call.elevation_degrees) =>
              Cardinality({k \in 1..Len(ret.satellites) :
                             ret.satellites[k].index = i}) = 1
  /\ (call.fn = "get_visible_satellites" /\ ret # None) =>
       /\ \A k \in 1..Len(ret.satellites) :
            /\ ret.satellites[k].elevation >= call.elevation_min
            /\ ret.satellites[k].index \in 1..Len(call.positions)
            /\ ret.satellites[k].distance = call.dist[ret.satellites[k].index]
       /\ \A i \in 1..Len(call.positions) :
            (call.dist[i] < HorizonLimit
               /\ 90 - (call.dist[i] \div 100) >= call.elevation_min) =>
              Cardinality({k \in 1..Len(ret.satellites) :
                             ret.satellites[k].index = i}) = 1

\* a query that keeps a satellite exactly at the minimum and drops one below
C17_Witness ==
  /\ call.fn = "get_satellites_over_location"
  /\ ret # None
  /\ \E i, j \in 1..Len(store.sats) :
       /\ store.sats[i].ok /\ call.el[i] = call.elevation_degrees
       /\ store.sats[j].ok /\ call.el[j] < call.elevation_degrees
  /\ Len(ret.satellites) >= 1

\* C18: the visible satellites are listed from the highest elevation down,
\* and satellites of equal elevation stand in the order of the input.
C18_Key(r) == IF call.fn = "get_visible_satellites" THEN r.elevation
              ELSE r.elevation_degrees

C18_SortedStable ==
  (call.fn \in {"get_satellites_over_location", "get_visible_satellites"}
     /\ ret # None) =>
    \A a, b \in 1..Len(ret.satellites) :
      a < b =>
        /\ C18_Key(ret.satellites[a]) >= C18_Key(ret.satellites[b])
        /\ C18_Key(ret.satellites[a]) = C18_Key(ret.satellites[b])
             => ret.satellites[a].index < ret.satellites[b].index

\* two satellites of equal elevation listed after a higher one that came
\* later in the input
C18_Witness ==
  /\ call.fn = "get_satellites_over_location"
  /\ ret # None
  /\ Len(ret.satellites) = 3
  /\ ret.satellites[1].index = 3
  /\ ret.satellites[2].elevation_degrees = ret.satellites[3].elevation_degrees
  /\ ret.satellites[1].elevation_degrees > ret.satellites[2].elevation_degrees

\* the observer and the satellite of a look-angle computation
C19_Coincident ==
  /\ call.obs.lat = call.sat.lat
  /\ call.obs.lon = call.sat.lon
  /\ call.sat.alt = 0

C19_Antipodal ==
  /\ call.sat.lat = 0 - call.obs.lat
  /\ call.sat.lon - call.obs.lon \in {-180, 180}

\* C19 as stated: the elevation, azimuth and range helpers never raise, on
\* coincident and on antipodal points they return 0, and the visibility
\* query returns a list.
C19_DegenerateReturnsZero ==
  (call.fn = "look_angles" /\ ret # None) =>
    /\ Raise \notin {ret.elevation, ret.azimuth, ret.distance}
    /\ Len(ret.satellites) \in {0, 1}
    /\ (C19_Coincident \/ C19_Antipodal) =>
         /\ ret.elevation.v = 0
         /\ ret.azimuth.v = 0

\* C19 amended: the helpers never raise and the visibility query returns a
\* list; on coincident points (zero distance) elevation, azimuth and range
\* are 0; on antipodal points nothing fails and the computed values are
\* returned: elevation -90 and the range through the Earth.
C19_DegenerateHandled ==
  (call.fn = "look_angles" /\ ret # None) =>
    /\ Raise \notin {ret.elevation, ret.azimuth, ret.distance}
    /\ Len(ret.satellites) \in {0, 1}
    /\ C19_Coincident =>
         /\ ret.elevation.v = 0
         /\ ret.azimuth.v = 0
         /\ ret.distance.v = 0
    /\ C19_Antipodal =>
         /\ ret.elevation.v = -90
         /\ ret.distance.v = 2 * EarthRadius + call.sat.alt
         /\ ret.satellites = <<>>

\* the zero-distance case, listed by a query with minimum elevation 0
C19_Witness ==
  /\ call.fn = "look_angles"
  /\ ret # None
  /\ C19_Coincident
  /\ call.elevation_degrees = 0
  /\ Len(ret.satellites) = 1
  /\ ret.satellites[1].distance_km = 0

\* C20: every computed position has its longitude in (-180, 180] and its
\* latitude in [-90, 90].
C20_Normalized ==
  (call.fn = "position" /\ ret # None) =>
    /\ ret.lng > -180
    /\ ret.lng <= 180
    /\ ret.lat >= -90
    /\ ret.lat <= 90

\* C21: a provider whose credentials are missing is unavailable in every
\* pass of the process: each time the resolver reaches it on a cache miss the
\* provider fails without getting to a statement that sends a request, it is
\* not tried a second time in the pass, and the resolver goes on to the next
\* provider in the list.
C21_Unconfigured(source) ==
  \/ source = "satellitemap_enhanced" /\ ~smKey
  \/ source = "aviation_edge" /\ ~aeKey
  \/ source = "space_track" /\ ~stCreds

C21_UnavailableWithoutRequest ==
  \A c \in Callers : \A i \in 1..Len(invoked[c]) :
    C21_Unconfigured(invoked[c][i].source) =>
      /\ ClaimFailed(invoked[c][i].outcome)
      /\ ~invoked[c][i].network
      /\ \A j \in 1..Len(invoked[c]) :
           j # i => invoked[c][j].source # invoked[c][i].source
      /\ i < Len(ClaimOrder)
      /\ IF i < Len(invoked[c])
         THEN invoked[c][i + 1].source = ClaimOrder[i + 1]
         ELSE pc[c] = "fetch" /\ data_sources[idx[c]] = ClaimOrder[i + 1]

\* a later pass, after the cached snapshot expired, again skipped the two
\* providers without credentials and went on to the last provider
C21_Witness ==
  \E c \in Callers :
    /\ ~smKey /\ ~stCreds
    /\ cached_data # EmptyDict /\ last_update # <<>>
    /\ now - last_update[1] >= cache_duration
    /\ Len(invoked[c]) = 4
    /\ invoked[c][1].outcome = "none" /\ ~invoked[c][1].network
    /\ invoked[c][3].outcome = "none" /\ ~invoked[c][3].network
    /\ invoked[c][4].network

\* C22: the synthetic snapshot is deterministic: two invocations of a
\* collector's generator, at any two times and with any fields held, give
\* the same number of positions with the same catalog numbers, names and
\* coordinates, the same counts and the same data_source; only time stamps
\* differ. The catalog numbers are those of the snapshot the resolver and the
\* element-set collectors return.
C22_Fixed(p) ==
  [norad_id |-> p.norad_id, name |-> p.name, lat |-> p.lat, lng |-> p.lng,
   alt |-> p.alt]

C22_Constellation(snap) ==
  [data_source |-> snap.data_source, satellite_count |-> snap.satellite_count,
   positions_calculated |-> snap.positions_calculated,
   positions |-> [i \in 1..Len(snap.positions) |-> C22_Fixed(snap.positions[i])]]

C23_SingleLoop ==
  Cardinality({th \in Threads : lpc[th] # "none"}) <= 1

\* C24: a synthetic snapshot (data_source enhanced_fallback or sample_data)
\* is never written to the resolver's cache.
C24_NoSyntheticCached ==
  cached_data # EmptyDict =>
    cached_data.data_source \notin {"enhanced_fallback", "sample_data"}

\* C25: on a cache miss where every provider fails, no step of the pass
\* changes cached_data or last_update, and the call returns the synthetic
\* fallback snapshot, not the expired snapshot still held in cached_data.
C25_FailedPassKeepsCache ==
  /\ [](\A c \in Callers :
          (pc[c] = "done" /\ AllFailed(c)) =>
            /\ result[c] = get_fallback_data
            /\ result[c].data_source = "enhanced_fallback"
            /\ result[c] # cached_data)
  /\ [][\A c \in Callers :
          (pc[c] \in {"fetch", "fallback"} /\ pc'[c] \in {"fetch", "fallback", "done"}) =>
            (cached_data' = cached_data /\ last_update' = last_update)]_vars

\* all four providers failed while an expired snapshot was held
C25_Witness ==
  \E c \in Callers :
    /\ pc[c] = "done" /\ AllFailed(c)
    /\ cached_data # EmptyDict /\ last_update # <<>>
    /\ now - last_update[1] >= cache_duration
    /\ result[c] = get_fallback_data

\* C26: every satellite returned by SatelliteCollector's
\* get_satellites_over_location is one of the satellites in the positions of
\* the snapshot its get_starlink_constellation returns for the same fields
\* at the same time.
C26_VisibleWithinSnapshot ==
  (kind = "celestrak" /\ call.fn = "get_satellites_over_location" /\ ret # None) =>
    \A resp \in Responses :
      LET snap == ct_get_starlink_constellation(store, now, resp).ret
      IN \A i \in 1..Len(ret.satellites) :
           \E j \in 1..Len(snap.positions) :
             snap.positions[j] = ret.satellites[i].norad_id

\* C27: a fetch of either element-set collector reports success, replaces
\* the working set and resets the fetch time only when it accepted at least
\* one record; with no record accepted it reports failure and leaves the
\* working set and the fetch time as they were.
C27_SuccessNeedsRecord ==
  /\ [](ingest.op = "call" /\ ingest.ok =>
          SelectSeq(ingest.entries, IsValid) # <<>>)
  /\ [][(ingest'.op = "call" /\ ingest'.fetched
         /\ SelectSeq(ingest'.entries, IsValid) = <<>>) =>
          (store'.sats = store.sats /\ store'.recs = store.recs
           /\ store'.last_tle_fetch = store.last_tle_fetch)]_vars

\* C28: a refresh that fails (error status, timeout, oversize body, failed
\* login, exception, or nothing accepted by the CelesTrak parser) leaves
\* starlink_satellites, satellite_records and last_tle_fetch exactly as they
\* were, so the set is still due for a refresh at the next call.
C28_FailedRefreshKeepsSet ==
  [][(ingest'.op = "call" /\ ingest'.fetched /\ ~ingest'.ok) =>
       /\ store'.sats = store.sats
       /\ store'.recs = store.recs
       /\ store'.last_tle_fetch = store.last_tle_fetch
       /\ should_update_tle(store', now')]_vars

\* a Space-Track refresh of an expired set failed and the records of the
\* earlier fetch are still held
C28_Witness ==
  /\ kind = "spacetrack"
  /\ ingest.op = "call" /\ ingest.fetched /\ ~ingest.ok
  /\ ingest.age # <<>>
  /\ store.sats # <<>> /\ store.recs # <<>>
  /\ store.last_tle_fetch = <<0>>
  /\ now > tle_cache_duration

\* C29: when the lifetime of the element sets has expired and the refetch
\* fails, the collector returns the sample snapshot (data_source sample_data)
\* although the records ingested earlier are still held: the answer is the
\* fixed sample constellation whatever the held records are.
C29_SampleAfterFailedRefetch ==
  (ingest.op = "call" /\ ingest.fetched /\ ~ingest.ok /\ reply.op = "constellation") =>
     /\ reply.body = get_sample_satellite_data
     /\ reply.body.data_source = "sample_data"
     /\ reply.body.satellite_count = SampleCount

\* the refetch of an expired CelesTrak set failed while a satellite with a
\* computable position was held
C29_Witness ==
  /\ kind = "celestrak"
  /\ ingest.op = "call" /\ ingest.fetched /\ ~ingest.ok
  /\ ingest.age # <<>> /\ ingest.age[1] > tle_cache_duration
  /\ \E i \in 1..Len(store.sats) : store.sats[i].ok
  /\ reply.op = "constellation"
  /\ reply.body.data_source = "sample_data"

\* C30: in every snapshot a provider, a collector or the fallback returns,
\* and in the snapshot held in the cache, positions_calculated is the number
\* of entries of positions and is at most satellite_count.
C30_Counted(snap) ==
  /\ snap.positions_calculated = Len(snap.positions)
  /\ snap.positions_calculated <= snap.satellite_count

C30_CountsAgree ==
  /\ \A c \in Callers :
       /\ result[c] # None => C30_Counted(result[c])
       /\ data[c] # None => C30_Counted(data[c])
  /\ cached_data # EmptyDict => C30_Counted(cached_data)
  /\ reply.op = "constellation" => C30_Counted(reply.body)
  /\ C30_Counted(get_fallback_data)
  /\ C30_Counted(get_sample_satellite_data)

\* a collector's snapshot in which the stored satellite has no position
C30_Witness ==
  /\ reply.op = "constellation"
  /\ reply.body.data_source \in {"celestrak_tle", "spacetrack_sgp4"}
  /\ reply.body.satellite_count = Len(store.sats)
  /\ reply.body.positions_calculated < reply.body.satellite_count

\* C31: every element record accepted by ingest has an epoch that is not
\* later than the acquisition date by more than a tolerance of one day; a
\* triplet whose epoch lies further in the future is not accepted.
C31_Later(a, b) ==
  a.year > b.year \/ (a.year = b.year /\ a.day > b.day + 1)

C31_EpochNotFuture ==
  (call.fn = "accept_triplet" /\ ret # None) =>
    \A i \in 1..Len(ret.satellites) :
      ~C31_Later(ret.satellites[i].epoch, call.today)

\* C32: catalog numbers are unique: after any ingest the working set holds
\* at most one record per catalog number.
C32_UniqueCatalog ==
  \A i, j \in 1..Len(store.sats) :
    i # j => store.sats[i].norad_id # store.sats[j].norad_id

C34_InRange(p) ==
  /\ -90 <= p.lat /\ p.lat <= 90
  /\ -180 <= p.lng /\ p.lng <= 180

C34_SyntheticInRange ==
  (call.fn = "synthetic" /\ ret # None) =>
    /\ \A i \in 1..Len(ret.first.positions) : C34_InRange(ret.first.positions[i])
    /\ \A i \in 1..Len(ret.second.positions) : C34_InRange(ret.second.positions[i])

\* C35: on one SpaceTrackCollector, after a login that succeeded,
\* authenticate() sends no further login request until auth_duration has
\* passed since that login; and a login attempt that failed leaves
\* auth_token and auth_time as they were.
C35_LoginCached ==
  (call.fn = "authenticate" /\ ret # None) =>
    /\ (ret.first.requested /\ ret.first.ok /\ call.later < auth_duration) =>
         ~ret.second.requested
    /\ (ret.first.requested /\ ~ret.first.ok) => ret.first.auth = ret.before

\* C36 as stated: dish discovery is sticky: a get_status call that began
\* with dish_ip set probed only that address and left dish_ip as it was;
\* get_status never raises; and when that address did not answer the call
\* returned connected = false with an error message.
C36_StickyThenError ==
  dish.known # <<>> =>
    /\ dish.probed = dish.known
    /\ dish.dish_ip = dish.known
    /\ ~dish.raised
    /\ dish.ret.source # "dish" => (~dish.ret.connected /\ dish.ret.error # "")

\* C36 amended: a get_status call that began with dish_ip set probed only
\* that address and left dish_ip as it was; no call raises; a call in which
\* no probed address gave usable data returned either connected = false with
\* an error message or, when the public address lookup reports a Starlink
\* network, the estimated telemetry with connected = true and no error.
C36_StickyThenFallback ==
  /\ dish.known # <<>> =>
       (dish.probed = dish.known /\ dish.dish_ip = dish.known)
  /\ ~dish.raised
  /\ (dish.ret # None /\ dish.ret.source # "dish") =>
       \/ ~dish.ret.connected /\ dish.ret.error # ""
       \/ dish.ret.source = "network" /\ dish.ret.connected /\ dish.ret.error = ""
  /\ (dish.ret # None /\ dish.ret.source = "dish") =>
       (dish.ret.connected /\ dish.dish_ip = <<dish.probed[Len(dish.probed)]>>)

\* the dish found earlier at the second address no longer answers and the
\* call reports the failure; only that address was tried
C36_Witness ==
  /\ dish.known = <<potential_ips[2]>>
  /\ dish.dish_ip = dish.known
  /\ dish.last_successful_data # <<>>
  /\ dish.probed = dish.known
  /\ dish.ret.source = "error"
  /\ ~dish.ret.connected

====
